---- MODULE Spec2Model ----
(***************************************************************************)
(* A model of the two scripts of ots-tools:                                *)
(*   sort-duplicates.py  (Spec, SpecSort, SpecNorm)                        *)
(*   csv2wiki.py         (SpecCsv)                                         *)
(* A Python string is a sequence of characters (or of atomic chunks), so   *)
(* that "+" is \o and split/int/str do real work.  A Python list is a      *)
(* sequence; Python index k is index k+1 here.                             *)
(***************************************************************************)
EXTENDS Integers, Sequences, FiniteSets, TLC

\* ------------------------------------------------------------------ bounds
\* most <duplication> elements in a report
MaxRecs == 3
\* most entries of a list handed to sort_files on its own
MaxSortLen == 3
\* most tokens of a raw path handed to the path chopping on its own
MaxTokens == 3
\* most data rows of a CSV file
MaxRows == 2

\* ------------------------------------------------------- sort-duplicates.py
\* interpreter: the Python that runs the script ("python2" or "python3"; the
\* two differ in what an Element offers and in how they round a float)
VARIABLES interpreter, argv, fs, xml_root, pc, exc, reduced_filelist,
          array_of_sizes, array_of_percents, file_list, stdout

\* The path chopping on its own (SpecNorm)
VARIABLES raw_path, chopped

varsDup == <<interpreter, argv, fs, xml_root, pc, exc, reduced_filelist,
             array_of_sizes, array_of_percents, file_list, stdout>>
varsNorm == <<raw_path, chopped>>

\* ---------------------------------------------------------------- csv2wiki.py
\* csv_rows: the rows the reader has yielded so far; saves: every page.save
\* call made so far, with what the site answered
VARIABLES csv_rows, is_header, row_num, header_array, cell_num, page, toc_text,
          categories, saves, category_pos

varsCsv == <<csv_rows, is_header, row_num, header_array, cell_num, page,
             toc_text, categories, saves, category_pos>>
varsDupData == <<interpreter, argv, fs, xml_root, reduced_filelist,
                 array_of_sizes, array_of_percents, file_list, stdout>>
\* what csv2wiki.py leaves alone of the above when it prints
varsDupNoStdout == <<interpreter, argv, fs, xml_root, reduced_filelist,
                     array_of_sizes, array_of_percents, file_list>>
vars == <<varsDup, varsNorm, varsCsv>>

\* the literal of lines 57 and 59
MARKER == <<".", ".", "/", ".", ".", "/", ".", ".", "/">>

\* Python's None, and a value that is not None
None == [none |-> TRUE, v |-> <<>>]
Some(x) == [none |-> FALSE, v |-> x]

\* ---- str.split(sep), as line 57 uses it
MatchAt(s, sep, k) ==
    /\ k + Len(sep) - 1 <= Len(s)
    /\ \A j \in 1..Len(sep) : s[k + j - 1] = sep[j]

\* least position from k on at which sep occurs in s, 0 when there is none
RECURSIVE FindFrom(_, _, _)
FindFrom(s, sep, k) ==
    IF k + Len(sep) - 1 > Len(s) THEN 0
    ELSE IF MatchAt(s, sep, k) THEN k
    ELSE FindFrom(s, sep, k + 1)

Find(s, sep) == FindFrom(s, sep, 1)

RECURSIVE split(_, _)
split(s, sep) ==
    LET k == Find(s, sep)
    IN  IF k = 0 THEN <<s>>
        ELSE <<SubSeq(s, 1, k - 1)>> \o split(SubSeq(s, k + Len(sep), Len(s)), sep)

\* filepath.split('../../../')[1]: element 1 (0-based) of the split, an
\* IndexError when the split has a single element
ChopPath(filepath) ==
    LET parts == split(filepath, MARKER)
    IN  IF Len(parts) < 2 THEN [ok |-> FALSE, v |-> <<>>]
        ELSE [ok |-> TRUE, v |-> parts[2]]

\* ---- int() of a decimal string, str() of a non-negative int
DigitVal(c) ==
    CASE c = "0" -> 0 [] c = "1" -> 1 [] c = "2" -> 2 [] c = "3" -> 3
      [] c = "4" -> 4 [] c = "5" -> 5 [] c = "6" -> 6 [] c = "7" -> 7
      [] c = "8" -> 8 [] c = "9" -> 9

DigitChr(d) == <<"0", "1", "2", "3", "4", "5", "6", "7", "8", "9">>[d + 1]

RECURSIVE ParseInt(_)
ParseInt(s) ==
    IF s = <<>> THEN 0
    ELSE 10 * ParseInt(SubSeq(s, 1, Len(s) - 1)) + DigitVal(s[Len(s)])

RECURSIVE str(_)
str(n) == IF n < 10 THEN <<DigitChr(n)>> ELSE str(n \div 10) \o <<DigitChr(n % 10)>>

\* The duplicated-line count of a list entry is the attribute string as read
\* (line 82) until a second element is merged into it, and an int after
\* (line 75).
StrVal(s) == [t |-> "str", s |-> s, n |-> 0]
IntVal(n) == [t |-> "int", s |-> <<>>, n |-> n]
int(x) == IF x.t = "int" THEN x.n ELSE ParseInt(x.s)
\* str() of such a value: the string itself, or the decimal form of the int
StrOf(x) == IF x.t = "int" THEN str(x.n) ELSE x.s

\* ---- total_duplication, one pass of its loop (lines 51-82)
\* filepair._children (lines 53 and 58): an Element of Python 2 keeps its
\* children in the attribute _children; an Element of Python 3 has no such
\* attribute, and reading it is an AttributeError.
ElementHasChildren == interpreter = "python2"

\* index of the first entry with these two paths, in this order; 0 if none
FindPair(filelist, filepath1, filepath2) ==
    IF \E k \in 1..Len(filelist) :
          filelist[k][2] = filepath1 /\ filelist[k][3] = filepath2
    THEN CHOOSE k \in 1..Len(filelist) :
          /\ filelist[k][2] = filepath1 /\ filelist[k][3] = filepath2
          /\ \A j \in 1..(k - 1) :
                ~(filelist[j][2] = filepath1 /\ filelist[j][3] = filepath2)
    ELSE 0

\* MergePair with the pair matched in either order
MergePairEitherOrder(filelist, dupe_size, filepath1, filepath2) ==
    LET k == FindPair(filelist, filepath1, filepath2)
        j == FindPair(filelist, filepath2, filepath1)
        m == IF k # 0 /\ j # 0 THEN (IF k < j THEN k ELSE j)
             ELSE IF k # 0 THEN k ELSE j
    IN  IF m # 0
        THEN [filelist EXCEPT ![m][1] = IntVal(int(@) + ParseInt(dupe_size))]
        ELSE Append(filelist, <<StrVal(dupe_size), filepath1, filepath2>>)

\* MergePair with the merged entry taken out and appended again
MergePairMoveToEnd(filelist, dupe_size, filepath1, filepath2) ==
    LET k == FindPair(filelist, filepath1, filepath2)
    IN  IF k # 0
        THEN SubSeq(filelist, 1, k - 1) \o SubSeq(filelist, k + 1, Len(filelist))
             \o <<[filelist[k] EXCEPT ![1] = IntVal(int(@) + ParseInt(dupe_size))]>>
        ELSE Append(filelist, <<StrVal(dupe_size), filepath1, filepath2>>)

MergePair(filelist, dupe_size, filepath1, filepath2) ==
    LET k == FindPair(filelist, filepath1, filepath2)
    IN  IF k # 0
        THEN [filelist EXCEPT ![k][1] = IntVal(int(@) + ParseInt(dupe_size))]
        ELSE Append(filelist, <<StrVal(dupe_size), filepath1, filepath2>>)

\* ---- file_len (lines 35-39)
\* fs maps the name of each existing file to its number of lines.
file_len(fname) ==
    IF fname \notin DOMAIN fs THEN [ok |-> FALSE, err |-> "IOError", n |-> 0]
    ELSE IF fs[fname] = 0
         THEN [ok |-> FALSE, err |-> "UnboundLocalError", n |-> 0]
         ELSE [ok |-> TRUE, err |-> "none", n |-> fs[fname]]

\* ---- find_filesizes (lines 95-109): the list of sizes, None after the
\* usage message, or the error that ends the run
RECURSIVE FindFilesizesFrom(_, _, _)
FindFilesizesFrom(filelist, k, acc) ==
    IF k > Len(filelist) THEN [kind |-> "ok", v |-> acc]
    ELSE IF Len(argv) < 3 THEN [kind |-> "IndexError", v |-> <<>>]
    ELSE LET filepair == filelist[k]
             filesize1 == file_len(argv[3] \o filepair[2])
             filesize2 == file_len(argv[3] \o filepair[3])
         IN  IF ~filesize1.ok THEN [kind |-> filesize1.err, v |-> <<>>]
             ELSE IF ~filesize2.ok THEN [kind |-> filesize2.err, v |-> <<>>]
             ELSE FindFilesizesFrom(filelist, k + 1,
                    Append(acc, <<filepair[1], filesize1.n, filepair[2],
                                  filesize2.n, filepair[3]>>))

\* ---- percentage_duplicated (lines 118-126)
\* round(float(dupe)/float(size), 2), kept in hundredths.  round() rounds
\* the double that the division yields, not the exact quotient.  Where the
\* quotient is no decimal tie the double rounds as the quotient does.  Where
\* it is a tie, m/200 with m odd, the double is the quotient itself only if
\* 25 divides m (the quotient is then a multiple of 1/8): Python 3 sends
\* that to the even hundredth and Python 2 away from zero.  Otherwise the
\* double lies next to the tie, and round() goes to its side.
Interpreters == {"python2", "python3"}

\* t with 25 * 2^t <= m < 25 * 2^(t+1), for m >= 25
RECURSIVE Log2Over25(_, _)
Log2Over25(m, t) == IF 25 * 2^(t + 1) > m THEN t ELSE Log2Over25(m, t + 1)

\* least j with m * 2^j >= 25, for 0 < m < 25
RECURSIVE ShiftTo25(_, _)
ShiftTo25(m, j) == IF m * 2^j >= 25 THEN j ELSE ShiftTo25(m, j + 1)

\* 2^e modulo 25 (2^20 = 1 modulo 25)
Pow2Mod25(e) == (2^(e % 20)) % 25

\* where the double nearest to m/200 lies: on it, above it or below it.
\* The double keeps 53 bits: m * 2^e / 25 cut to an integer of 53 bits and
\* rounded to nearest, so the side is that of the remainder modulo 25.
DoubleOf200th(m) ==
    IF m % 25 = 0 THEN "exact"
    ELSE LET t == IF m >= 25 THEN Log2Over25(m, 0) ELSE 0 - ShiftTo25(m, 0)
             rem == ((m % 25) * Pow2Mod25(52 - t)) % 25
         IN  IF 2 * rem > 25 THEN "above" ELSE "below"

Round2(dupe, size) ==
    LET q == (100 * dupe) \div size
        r == (100 * dupe) % size
    IN  IF 2 * r < size THEN q
        ELSE IF 2 * r > size THEN q + 1
        ELSE LET side == DoubleOf200th(2 * q + 1)
             IN  IF side = "above" THEN q + 1
                 ELSE IF side = "below" THEN q
                 ELSE IF interpreter = "python2" THEN q + 1
                 ELSE IF q % 2 = 0 THEN q ELSE q + 1

PercentEntry(arr) ==
    <<Round2(int(arr[1]), arr[2]), arr[3], Round2(int(arr[1]), arr[4]), arr[5], arr[1]>>

PercentageDuplicatedOf(size_array) ==
    [k \in 1..Len(size_array) |-> PercentEntry(size_array[k])]

\* ---- sort_files (lines 133-136): sorted(percent_array, key = element 0)
\* sorted() is stable: an element goes after every element whose key is not
\* greater than its own.
\* InsertByKey with the element put before the elements of equal key
RECURSIVE InsertByKeyBeforeEqual(_, _)
InsertByKeyBeforeEqual(sorted_array, e) ==
    IF sorted_array = <<>> THEN <<e>>
    ELSE IF sorted_array[Len(sorted_array)][1] < e[1] THEN Append(sorted_array, e)
    ELSE Append(InsertByKeyBeforeEqual(SubSeq(sorted_array, 1, Len(sorted_array) - 1), e),
                sorted_array[Len(sorted_array)])

RECURSIVE InsertByKey(_, _)
InsertByKey(sorted_array, e) ==
    IF sorted_array = <<>> THEN <<e>>
    ELSE IF sorted_array[Len(sorted_array)][1] <= e[1] THEN Append(sorted_array, e)
    ELSE Append(InsertByKey(SubSeq(sorted_array, 1, Len(sorted_array) - 1), e),
                sorted_array[Len(sorted_array)])

RECURSIVE SortedByKey(_)
SortedByKey(percent_array) ==
    IF percent_array = <<>> THEN <<>>
    ELSE InsertByKey(SortedByKey(SubSeq(percent_array, 1, Len(percent_array) - 1)),
                     percent_array[Len(percent_array)])

sort_files(percent_array) == SortedByKey(percent_array)

\* ---- prettyprint_filelist (lines 144-150): the lines written for one pair
\* (the float formatting of percent*100 is not modelled: a percentage line
\* carries the hundredths in decimal)
PairLines(duped_file) ==
    << <<"PAIR: ">> \o StrOf(duped_file[5]) \o <<" lines in common:">>,
       <<"  ">> \o str(duped_file[1]) \o <<"e-2*100", "% of ">> \o duped_file[2],
       <<"  ">> \o str(duped_file[3]) \o <<"e-2*100", "% of ">> \o duped_file[4],
       <<"\n">> >>

RECURSIVE ReportLines(_)
ReportLines(files) ==
    IF files = <<>> THEN <<>>
    ELSE PairLines(files[1]) \o ReportLines(SubSeq(files, 2, Len(files)))

\* the two usage messages (lines 161 and 105)
UsageXml == <<"Please provide an xml file.">>
UsageRoot == <<"Please provide the path to 'coeci-cms-mpsp'.">>

\* ------------------------------------------------------------------ inputs
PathA == MARKER \o <<"a">>
PathB == <<"x", "/">> \o MARKER \o <<"b">>
PathN == <<".", ".", "/", "a">>
RawPaths == {PathA, PathB, PathN}
LineStrs == {<<"3">>, <<"1", "2">>}
Filepairs == [path1 : RawPaths, path2 : RawPaths, lines : LineStrs]

Prog == <<"sort-duplicates.py">>
XmlArg == <<"cpd.xml">>
Root == <<"r", "/">>
Argvs == {<<Prog>>, <<Prog, XmlArg>>, <<Prog, XmlArg, Root>>}
FileSystems ==
    { (Root \o <<"a">>) :> 8 @@ (Root \o <<"b">>) :> 40,
      (Root \o <<"a">>) :> 7,
      (Root \o <<"a">>) :> 0 @@ (Root \o <<"b">>) :> 5 }

\* ----------------------------------------------------------------- actions
InitDup ==
    /\ interpreter \in Interpreters
    /\ argv \in Argvs
    /\ fs \in FileSystems
    /\ xml_root = <<>>
    /\ pc = "main"
    /\ exc = "none"
    /\ reduced_filelist = <<>>
    /\ array_of_sizes = None
    /\ array_of_percents = None
    /\ file_list = <<>>
    /\ stdout = <<>>

IdleNorm == raw_path = <<>> /\ chopped = [ok |-> FALSE, v |-> <<>>]

IdleCsv ==
    /\ csv_rows = <<>>
    /\ is_header = TRUE
    /\ row_num = 0
    /\ header_array = <<>>
    /\ cell_num = 0
    /\ page = <<>>
    /\ toc_text = <<>>
    /\ categories = <<>>
    /\ saves = <<>>
    /\ category_pos = 1

Init == InitDup /\ IdleNorm /\ IdleCsv

\* main, lines 157-162: Tree.parse(sys.argv[1]) of a well-formed report.
\* xml_root holds the elements the loop of total_duplication has reached;
\* each next element is chosen when the loop reaches it.
MainParse ==
    /\ pc = "main"
    /\ IF Len(argv) < 2
       THEN /\ stdout' = Append(stdout, UsageXml)
            /\ pc' = "done"
       ELSE /\ pc' = "total_duplication"
            /\ UNCHANGED stdout
    /\ UNCHANGED <<interpreter, argv, fs, xml_root, exc, reduced_filelist, array_of_sizes,
                   array_of_percents, file_list, varsNorm, varsCsv>>

\* total_duplication, lines 51-82: one pass of the loop, over the next element.
\* Nothing in main catches what the pass raises.
TotalDuplicationStep ==
    /\ pc = "total_duplication"
    /\ Len(xml_root) < MaxRecs
    /\ \E filepair \in Filepairs :
          LET filepath1 == ChopPath(filepair.path1)
              filepath2 == ChopPath(filepair.path2)
          IN  /\ xml_root' = Append(xml_root, filepair)
              /\ IF ~ElementHasChildren
                 THEN /\ pc' = "crashed"
                      /\ exc' = "AttributeError"
                      /\ UNCHANGED reduced_filelist
                 ELSE IF filepath1.ok /\ filepath2.ok
                 THEN /\ reduced_filelist' =
                            MergePair(reduced_filelist, filepair.lines,
                                      filepath1.v, filepath2.v)
                      /\ UNCHANGED <<pc, exc>>
                 ELSE /\ pc' = "crashed"
                      /\ exc' = "IndexError"
                      /\ UNCHANGED reduced_filelist
    /\ UNCHANGED <<interpreter, argv, fs, array_of_sizes, array_of_percents, file_list,
                   stdout, varsNorm, varsCsv>>

\* total_duplication, line 85: the report has no further element
TotalDuplicationReturn ==
    /\ pc = "total_duplication"
    /\ pc' = "find_filesizes"
    /\ UNCHANGED <<interpreter, argv, fs, xml_root, exc, reduced_filelist, array_of_sizes,
                   array_of_percents, file_list, stdout, varsNorm, varsCsv>>

\* main, line 167: find_filesizes(shorter_filelist)
FindFilesizes ==
    /\ pc = "find_filesizes"
    /\ LET r == FindFilesizesFrom(reduced_filelist, 1, <<>>)
       IN  CASE r.kind = "ok" ->
                  /\ array_of_sizes' = Some(r.v)
                  /\ pc' = "percentage_duplicated"
                  /\ UNCHANGED <<stdout, exc>>
             [] r.kind = "IndexError" ->
                  /\ stdout' = Append(stdout, UsageRoot)
                  /\ array_of_sizes' = None
                  /\ pc' = "percentage_duplicated"
                  /\ UNCHANGED exc
             [] OTHER ->
                  /\ pc' = "crashed"
                  /\ exc' = r.kind
                  /\ UNCHANGED <<stdout, array_of_sizes>>
    /\ UNCHANGED <<interpreter, argv, fs, xml_root, reduced_filelist, array_of_percents,
                   file_list, varsNorm, varsCsv>>

\* main, lines 169-172: percentage_duplicated(array_of_sizes); iterating over
\* None is a TypeError, which main catches and returns
PercentageDuplicated ==
    /\ pc = "percentage_duplicated"
    /\ IF array_of_sizes.none
       THEN /\ pc' = "done"
            /\ UNCHANGED array_of_percents
       ELSE /\ array_of_percents' = Some(PercentageDuplicatedOf(array_of_sizes.v))
            /\ pc' = "sort_files"
    /\ UNCHANGED <<interpreter, argv, fs, xml_root, exc, reduced_filelist, array_of_sizes,
                   file_list, stdout, varsNorm, varsCsv>>

\* main, line 175
SortFiles ==
    /\ pc = "sort_files"
    /\ file_list' = sort_files(array_of_percents.v)
    /\ pc' = "prettyprint_filelist"
    /\ UNCHANGED <<interpreter, argv, fs, xml_root, exc, reduced_filelist, array_of_sizes,
                   array_of_percents, stdout, varsNorm, varsCsv>>

\* main, lines 178-179
PrettyprintFilelist ==
    /\ pc = "prettyprint_filelist"
    /\ stdout' = stdout \o ReportLines(file_list)
    /\ pc' = "done"
    /\ UNCHANGED <<interpreter, argv, fs, xml_root, exc, reduced_filelist, array_of_sizes,
                   array_of_percents, file_list, varsNorm, varsCsv>>

Next ==
    \/ MainParse
    \/ TotalDuplicationStep
    \/ TotalDuplicationReturn
    \/ FindFilesizes
    \/ PercentageDuplicated
    \/ SortFiles
    \/ PrettyprintFilelist

Spec == Init /\ [][Next]_vars

\* ----------------------------------------------------- claims, duplication
Terminal == pc \in {"done", "crashed"}

\* the two chopped paths of a report element, when both paths chop
HasPair(rec) == ChopPath(rec.path1).ok /\ ChopPath(rec.path2).ok
PairOf(rec) == <<ChopPath(rec.path1).v, ChopPath(rec.path2).v>>
\* the pass over a report element came to the merge of lines 67-82: it raised
\* neither the AttributeError of line 53 nor the IndexError of lines 57, 59
Aggregated(rec) == ElementHasChildren /\ HasPair(rec)

\* the report elements read, each with its pair of chopped paths and its
\* count as an integer; ok: the pass over it did not raise
ReadPairs ==
    [r \in 1..Len(xml_root) |->
        [ok |-> Aggregated(xml_root[r]),
         pair |-> PairOf(xml_root[r]),
         lines |-> ParseInt(xml_root[r].lines)]]

\* the sum of the counts of the first n of them that have this pair
RECURSIVE SumLines(_, _, _)
SumLines(read, n, pair) ==
    IF n = 0 THEN 0
    ELSE SumLines(read, n - 1, pair)
         + (IF read[n].ok /\ read[n].pair = pair THEN read[n].lines ELSE 0)

\* C1: for every ordered pair of chopped paths among the report elements
\* that total_duplication has aggregated (its pass over them did not raise),
\* the list has an entry for it, and the count of every entry for it is, as
\* an integer, the sum of `lines` over exactly the elements with that pair
\* in that order.
C1_TotalIsSum ==
    LET read == ReadPairs
    IN  \A r \in 1..Len(read) :
            read[r].ok =>
                /\ \E k \in 1..Len(reduced_filelist) :
                      <<reduced_filelist[k][2], reduced_filelist[k][3]>> = read[r].pair
                /\ \A k \in 1..Len(reduced_filelist) :
                      <<reduced_filelist[k][2], reduced_filelist[k][3]>> = read[r].pair
                          => int(reduced_filelist[k][1])
                               = SumLines(read, Len(read), read[r].pair)

\* a pair read twice with different counts, and its swap read in between
C1_Witness ==
    /\ pc = "find_filesizes"
    /\ Len(xml_root) = 3
    /\ PairOf(xml_root[1]) = <<<<"a">>, <<"b">>>>
    /\ PairOf(xml_root[2]) = <<<<"b">>, <<"a">>>>
    /\ PairOf(xml_root[3]) = <<<<"a">>, <<"b">>>>
    /\ xml_root[1].lines # xml_root[3].lines
    /\ Len(reduced_filelist) = 2
    /\ reduced_filelist[1][1] = IntVal(15)

RECURSIVE FirstSeenPairs(_)
FirstSeenPairs(recs) ==
    IF recs = <<>> THEN <<>>
    ELSE LET before == FirstSeenPairs(SubSeq(recs, 1, Len(recs) - 1))
             last == recs[Len(recs)]
         IN  IF Aggregated(last) /\ \A k \in 1..Len(before) : before[k] # PairOf(last)
             THEN Append(before, PairOf(last))
             ELSE before

PairsOf(filelist) == [k \in 1..Len(filelist) |-> <<filelist[k][2], filelist[k][3]>>]

\* C2: after every pass of the loop the list holds one entry per distinct
\* ordered pair aggregated so far (a pass that raises aggregates nothing),
\* in first-seen order, and an entry of the list keeps its place and its
\* pair in every later step.
C2_FirstSeenOrder ==
    /\ [](PairsOf(reduced_filelist) = FirstSeenPairs(xml_root))
    /\ [][\A k \in 1..Len(reduced_filelist) :
            /\ k <= Len(reduced_filelist')
            /\ PairsOf(reduced_filelist')[k] = PairsOf(reduced_filelist)[k]]_vars

\* two entries, and a third element merged into the first of them
C2_Witness ==
    /\ Len(xml_root) = 3
    /\ Len(reduced_filelist) = 2
    /\ PairOf(xml_root[3]) = PairOf(xml_root[1])
    /\ PairOf(xml_root[2]) # PairOf(xml_root[1])
    /\ pc = "total_duplication"

ReportPrinted == \E k \in 1..Len(stdout) : stdout[k][1] = "PAIR: "
UsagePrinted == \E k \in 1..Len(stdout) : stdout[k] \in {UsageXml, UsageRoot}

\* C4: a finished run without the XML argument, or without the root
\* argument, has returned (it did not crash), has printed a usage message
\* and has printed no report line.  (Stated for runs in which no pass of
\* total_duplication raised, so that the uncaught errors of lines 53-59 are
\* not what refutes it.)
C4_UsageWhenArgMissing ==
    (Terminal /\ Len(argv) < 3 /\ \A r \in 1..Len(xml_root) : Aggregated(xml_root[r]))
        => (pc = "done" /\ UsagePrinted /\ ~ReportPrinted)

\* C5: a finished run that read a path without the marker has returned (the
\* error was caught), has printed a message and has printed no report.
C5_MarkerlessPathReported ==
    (Terminal /\ \E r \in 1..Len(xml_root) : ~HasPair(xml_root[r]))
        => (pc = "done" /\ exc = "none" /\ stdout # <<>> /\ ~ReportPrinted)

\* ------------------------------------------- sort_files on its own (SpecSort)
SortPaths == {<<"a">>, <<"b">>}
SortEntries ==
    {<<p, f, 50, <<"c">>, IntVal(5)>> : p \in {0, 40, 100}, f \in SortPaths}

RECURSIVE SeqsUpTo(_, _)
SeqsUpTo(S, n) ==
    IF n = 0 THEN {<<>>}
    ELSE LET shorter == SeqsUpTo(S, n - 1)
         IN  shorter \cup {Append(q, e) : q \in shorter, e \in S}

InitSort ==
    /\ interpreter = "python2"
    /\ argv = <<Prog, XmlArg, Root>>
    /\ fs = [f \in {} |-> 0]
    /\ xml_root = <<>>
    /\ pc = "sort_files"
    /\ exc = "none"
    /\ reduced_filelist = <<>>
    /\ array_of_sizes = None
    /\ array_of_percents \in {Some(a) : a \in SeqsUpTo(SortEntries, MaxSortLen)}
    /\ file_list = <<>>
    /\ stdout = <<>>
    /\ IdleNorm
    /\ IdleCsv

NextSort == SortFiles

SpecSort == InitSort /\ [][NextSort]_vars

\* ------------------------------------ the path chopping on its own (SpecNorm)
PathTokens == {MARKER, <<"a">>, <<"b", "/">>, <<".", ".", "/">>}

RECURSIVE Flatten(_)
Flatten(tokens) ==
    IF tokens = <<>> THEN <<>>
    ELSE tokens[1] \o Flatten(SubSeq(tokens, 2, Len(tokens)))

RawPathInputs == {Flatten(t) : t \in SeqsUpTo(PathTokens, MaxTokens)}

InitNorm ==
    /\ interpreter = "python2"
    /\ argv = <<Prog, XmlArg, Root>>
    /\ fs = [f \in {} |-> 0]
    /\ xml_root = <<>>
    /\ pc = "chop"
    /\ exc = "none"
    /\ reduced_filelist = <<>>
    /\ array_of_sizes = None
    /\ array_of_percents = None
    /\ file_list = <<>>
    /\ stdout = <<>>
    /\ raw_path \in RawPathInputs
    /\ chopped = [ok |-> FALSE, v |-> <<>>]
    /\ IdleCsv

\* lines 57 and 59, applied to one path
ChopStep ==
    /\ pc = "chop"
    /\ chopped' = ChopPath(raw_path)
    /\ pc' = IF chopped'.ok THEN "chopped" ELSE "crashed"
    /\ exc' = IF chopped'.ok THEN "none" ELSE "IndexError"
    /\ UNCHANGED <<interpreter, argv, fs, xml_root, reduced_filelist, array_of_sizes,
                   array_of_percents, file_list, stdout, raw_path, varsCsv>>

NextNorm == ChopStep

SpecNorm == InitNorm /\ [][NextNorm]_vars

\* ------------------------------------------------ claims, sort and chopping
Count(q, e) == Cardinality({k \in 1..Len(q) : q[k] = e})
WithKey(q, key) == LET Has(e) == e[1] = key IN SelectSeq(q, Has)

\* C3: the list sort_files returns is a permutation of its input, is
\* non-decreasing in its first element, and keeps the input order among the
\* entries with equal first element.
C3_SortedStable ==
    pc = "prettyprint_filelist" =>
        LET in == array_of_percents.v
            out == file_list
        IN  /\ Len(out) = Len(in)
            /\ \A k \in 1..Len(in) : Count(out, in[k]) = Count(in, in[k])
            /\ \A k \in 1..(Len(out) - 1) : out[k][1] <= out[k + 1][1]
            /\ \A k \in 1..Len(in) : WithKey(out, in[k][1]) = WithKey(in, in[k][1])

\* an unsorted input with two different entries of equal percentage
C3_Witness ==
    /\ pc = "prettyprint_filelist"
    /\ array_of_percents.v = << <<100, <<"b">>, 50, <<"c">>, IntVal(5)>>,
                                <<40, <<"b">>, 50, <<"c">>, IntVal(5)>>,
                                <<40, <<"a">>, 50, <<"c">>, IntVal(5)>> >>
    /\ file_list[3][1] = 100

\* C7: the chopped path of a raw path that holds the marker is all of the
\* raw path after the first occurrence of the marker.
C7_RestAfterFirstMarker ==
    (pc # "chop" /\ Find(raw_path, MARKER) # 0) =>
        /\ chopped.ok
        /\ chopped.v = SubSeq(raw_path, Find(raw_path, MARKER) + Len(MARKER),
                              Len(raw_path))

\* ================================================================ csv2wiki.py
\* A cell, a title and a page text are sequences of chunks; "" is <<>>.
TocTitle == <<"List of Proposals">>

\* Title with the rows numbered from 0
TitleFromZero(n, cell) == <<"Proposal_">> \o str(n - 1) \o <<": ">> \o cell

\* line 46: 'Proposal_' + str(row_num) + ': ' + cell
Title(n, cell) == <<"Proposal_">> \o str(n) \o <<": ">> \o cell

\* line 50: the entry added to toc_text
TocEntry(title) == <<"* [[">> \o title \o <<"]] \n">>

\* IsNotEmpty as a test that never fails (`cell is not None`)
IsNotNone(cell) == TRUE

\* line 52: `cell is not ""` (CPython keeps a single empty string, so the
\* identity test is the test for the empty string)
IsNotEmpty(cell) == cell # <<>>

\* line 55
IsLastColumn(row, n) == n = Len(row) - 1

\* lines 55-67: the text saved for the cell at 0-based column n of row
CellText(row, n) ==
    IF IsLastColumn(row, n) THEN <<"[[Category:">> \o row[n + 1] \o <<"]]">>
    ELSE row[n + 1]

\* AddCategory without the membership test
AddCategoryAlways(cats, cell) == Append(cats, cell)

\* lines 64-65
AddCategory(cats, cell) ==
    IF \E k \in 1..Len(cats) : cats[k] = cell THEN cats ELSE Append(cats, cell)

\* the section argument of page.save: a column number, 'new', or none given
SectionAt(n) == [kind |-> "index", n |-> n]
SectionNew == [kind |-> "new", n |-> 0]
NoSection == [kind |-> "none", n |-> 0]

SaveCall(title, text, section, sectiontitle, result) ==
    [page |-> title, text |-> text, section |-> section,
     sectiontitle |-> sectiontitle, result |-> result]

\* what the site answers to a save: it takes it, it raises errors.APIError,
\* or the call raises anything else.  Only the save of line 72 is inside a
\* try; anywhere else either failure ends the run.
Answers == {"ok", "APIError", "error"}

\* SaveSection with the second save addressed by column again
SaveSectionSameIndex(title, text, n, sectiontitle, r1, r2) ==
    IF r1 = "APIError"
    THEN <<[page |-> title, text |-> text, section |-> [kind |-> "index", n |-> n],
            sectiontitle |-> sectiontitle, result |-> r1],
           [page |-> title, text |-> text, section |-> [kind |-> "index", n |-> n],
            sectiontitle |-> sectiontitle, result |-> r2]>>
    ELSE <<[page |-> title, text |-> text, section |-> [kind |-> "index", n |-> n],
            sectiontitle |-> sectiontitle, result |-> r1]>>

\* lines 71-74: the save calls made for one cell, given the answer r1 to the
\* save addressed by column and the answer r2 to the save as a new section
SaveSection(title, text, n, sectiontitle, r1, r2) ==
    IF r1 = "APIError"
    THEN <<SaveCall(title, text, SectionAt(n), sectiontitle, r1),
           SaveCall(title, text, SectionNew, sectiontitle, r2)>>
    ELSE <<SaveCall(title, text, SectionAt(n), sectiontitle, r1)>>

\* line 86
CategoryTitle(category) == <<"Category:">> \o category

\* ------------------------------------------------------------------ inputs
CellE == <<>>
CellX == <<"x">>
CellY == <<"y">>
Cells == {CellE, CellX, CellY}
Headers == {<<<<"Name">>, <<"Tag">>>>, <<<<"Name">>>>}
\* no cell, one cell, two cells, and two rows of three cells
DataRows ==
    {<<>>} \cup {<<c>> : c \in Cells} \cup {<<c, d>> : c \in Cells, d \in Cells}
    \cup {<<CellX, CellY, CellX>>, <<CellX, CellX, CellE>>}

DataRowsRead == SubSeq(csv_rows, 2, Len(csv_rows))

InitCsv ==
    /\ interpreter = "python2"
    /\ argv = <<<<"csv2wiki.py">>, <<"in.csv">>, <<"localhost/mediawiki">>,
                <<"user">>, <<"password">>>>
    /\ fs = [f \in {} |-> 0]
    /\ xml_root = <<>>
    /\ pc = "reader"
    /\ exc = "none"
    /\ reduced_filelist = <<>>
    /\ array_of_sizes = None
    /\ array_of_percents = None
    /\ file_list = <<>>
    /\ stdout = <<>>
    /\ IdleNorm
    /\ IdleCsv

\* lines 32-38 and 78: the reader yields the first row, the headers
ReadHeader ==
    /\ pc = "reader"
    /\ is_header
    /\ \E row \in Headers :
          /\ csv_rows' = Append(csv_rows, row)
          /\ header_array' = row
    /\ is_header' = FALSE
    /\ row_num' = row_num + 1
    /\ UNCHANGED <<pc, exc, varsDupData, varsNorm, cell_num, page, toc_text,
                   categories, saves, category_pos>>

\* lines 32 and 42: the reader yields a data row
ReadRow ==
    /\ pc = "reader"
    /\ ~is_header
    /\ Len(DataRowsRead) < MaxRows
    /\ \E row \in DataRows : csv_rows' = Append(csv_rows, row)
    /\ cell_num' = 0
    /\ pc' = "cells"
    /\ UNCHANGED <<exc, varsDupData, varsNorm, is_header, row_num, header_array,
                   page, toc_text, categories, saves, category_pos>>

\* lines 43-76: the loop body for the cell at column cell_num; for the first
\* cell line 47 prints the title before anything is saved
ProcessCell ==
    /\ pc = "cells"
    /\ cell_num < Len(csv_rows[Len(csv_rows)])
    /\ LET row == csv_rows[Len(csv_rows)]
           cell == row[cell_num + 1]
           title == IF cell_num = 0 THEN Title(row_num, cell) ELSE page
       IN  /\ page' = title
           /\ stdout' = IF cell_num = 0 THEN Append(stdout, title) ELSE stdout
           /\ toc_text' = IF cell_num = 0 THEN toc_text \o TocEntry(title)
                          ELSE toc_text
           /\ categories' = IF IsNotEmpty(cell) /\ IsLastColumn(row, cell_num)
                            THEN AddCategory(categories, cell)
                            ELSE categories
           /\ IF ~IsNotEmpty(cell)
              THEN /\ cell_num' = cell_num + 1
                   /\ UNCHANGED <<pc, exc, saves>>
              ELSE IF cell_num >= Len(header_array)
              THEN \* header_array[cell_num] raises before any save is made
                   /\ pc' = "crashed"
                   /\ exc' = "IndexError"
                   /\ UNCHANGED <<cell_num, saves>>
              ELSE \E r1 \in Answers, r2 \in Answers :
                   /\ r1 # "APIError" => r2 = "ok"
                   /\ saves' = saves \o SaveSection(title, CellText(row, cell_num),
                                         cell_num, header_array[cell_num + 1], r1, r2)
                   /\ IF saves'[Len(saves')].result = "ok"
                      THEN /\ cell_num' = cell_num + 1
                           /\ UNCHANGED <<pc, exc>>
                      ELSE /\ pc' = "crashed"
                           /\ exc' = saves'[Len(saves')].result
                           /\ UNCHANGED cell_num
    /\ UNCHANGED <<varsDupNoStdout, varsNorm, csv_rows, is_header, row_num,
                   header_array, category_pos>>

\* line 78: the cells of the row are done
EndRow ==
    /\ pc = "cells"
    /\ cell_num = Len(csv_rows[Len(csv_rows)])
    /\ row_num' = row_num + 1
    /\ pc' = "reader"
    /\ UNCHANGED <<exc, varsDupData, varsNorm, csv_rows, is_header, header_array,
                   cell_num, page, toc_text, categories, saves, category_pos>>

\* line 81: the reader has no further row; toc_page.save(toc_text)
SaveToc ==
    /\ pc = "reader"
    /\ \E r \in Answers :
          /\ saves' = Append(saves, SaveCall(TocTitle, toc_text, NoSection, <<>>, r))
          /\ IF r = "ok"
             THEN /\ pc' = IF categories = <<>> THEN "done" ELSE "categories"
                  /\ UNCHANGED exc
             ELSE /\ pc' = "crashed"
                  /\ exc' = r
    /\ UNCHANGED <<varsDupData, varsNorm, csv_rows, is_header, row_num,
                   header_array, cell_num, page, toc_text, categories, category_pos>>

\* lines 84-88: one pass of the loop over the categories; line 85 prints
\* the category and line 87 binds page to the category page
SaveCategory ==
    /\ pc = "categories"
    /\ stdout' = Append(stdout, categories[category_pos])
    /\ page' = CategoryTitle(categories[category_pos])
    /\ \E r \in Answers :
          /\ saves' = Append(saves, SaveCall(page', <<>>, NoSection, <<>>, r))
          /\ IF r = "ok"
             THEN /\ category_pos' = category_pos + 1
                  /\ pc' = IF category_pos = Len(categories) THEN "done" ELSE "categories"
                  /\ UNCHANGED exc
             ELSE /\ pc' = "crashed"
                  /\ exc' = r
                  /\ UNCHANGED category_pos
    /\ UNCHANGED <<varsDupNoStdout, varsNorm, csv_rows, is_header, row_num,
                   header_array, cell_num, toc_text, categories>>

NextCsv ==
    \/ ReadHeader
    \/ ReadRow
    \/ ProcessCell
    \/ EndRow
    \/ SaveToc
    \/ SaveCategory

SpecCsv == InitCsv /\ [][NextCsv]_vars

\* -------------------------------------------------------- claims, csv2wiki
\* the title the page of the r-th data row must have (rows of no cell have
\* no page)
ExpectedTitle(r) == <<"Proposal_">> \o str(r) \o <<": ">> \o DataRowsRead[r][1]

\* the number of cells of the r-th data row whose loop body has finished
CellsDone(r) == IF r < Len(DataRowsRead) THEN Len(DataRowsRead[r]) ELSE cell_num

\* the save calls addressed by column made for the finished cells of row r
IndexedWrites(r) ==
    LET Mine(c) == /\ c.page = ExpectedTitle(r)
                   /\ c.section.kind = "index"
                   /\ c.section.n < CellsDone(r)
        Shape(c) == <<c.section.n, c.sectiontitle, c.text>>
        mine == SelectSeq(saves, Mine)
    IN  [k \in 1..Len(mine) |-> Shape(mine[k])]

\* one write per non-empty cell among columns from..(upto - 1) of row r, in
\* column order: <<column, heading, text>>
RECURSIVE ExpectedWrites(_, _, _)
ExpectedWrites(r, from, upto) ==
    IF upto <= from THEN <<>>
    ELSE LET row == DataRowsRead[r]
             n == upto - 1
             text == IF n = Len(row) - 1
                     THEN <<"[[Category:">> \o row[n + 1] \o <<"]]">>
                     ELSE row[n + 1]
         IN  ExpectedWrites(r, from, n) \o
             (IF row[n + 1] = <<>> THEN <<>>
              ELSE << <<n, header_array[n + 1], text>> >>)

IsSectionWrite(c) == c.section.kind \in {"index", "new"}

\* C6, as the spec states it: the writes are one per non-empty cell after
\* the first, and none is made for the first cell.
C6_NoWriteForFirstCell ==
    \A r \in 1..Len(DataRowsRead) :
        Len(DataRowsRead[r]) > 0 => IndexedWrites(r) = ExpectedWrites(r, 1, CellsDone(r))

\* C6, amended: for every data row, the writes addressed by column made for
\* the cells handled so far are one per non-empty cell, the first cell
\* included, in column order, at the cell's column, under the heading of
\* that column, with the cell as text or the category tag when the cell is
\* the last of the row; no such write is made for an empty cell; every
\* section write goes to the page of a data row; and the only other section
\* write is the write as a new section that repeats, right after it, a write
\* addressed by column that the site rejected with an APIError (same page,
\* heading and text).
C6_OneWritePerNonEmptyCell ==
    /\ \A r \in 1..Len(DataRowsRead) :
          Len(DataRowsRead[r]) > 0 =>
              IndexedWrites(r) = ExpectedWrites(r, 0, CellsDone(r))
    /\ \A k \in 1..Len(saves) :
          IsSectionWrite(saves[k]) =>
              \E r \in 1..Len(DataRowsRead) :
                  Len(DataRowsRead[r]) > 0 /\ saves[k].page = ExpectedTitle(r)
    /\ \A k \in 1..Len(saves) :
          saves[k].section.kind = "new" =>
              /\ k > 1
              /\ saves[k - 1].section.kind = "index"
              /\ saves[k - 1].result = "APIError"
              /\ saves[k - 1].page = saves[k].page
              /\ saves[k - 1].sectiontitle = saves[k].sectiontitle
              /\ saves[k - 1].text = saves[k].text

\* a row with an empty first cell and a row of two non-empty cells, all
\* three writes taken by the site
C6_Witness ==
    /\ pc = "reader"
    /\ header_array = <<<<"Name">>, <<"Tag">>>>
    /\ DataRowsRead = <<<<CellE, CellX>>, <<CellX, CellY>>>>
    /\ Len(saves) = 3
    /\ saves[2].section = SectionAt(0)
    /\ saves[3].text = <<"[[Category:", "y", "]]">>

IsTocSave(c) == c.page = TocTitle

\* the table of contents the rows read call for
RECURSIVE ExpectedToc(_)
ExpectedToc(r) ==
    IF r = 0 THEN <<>>
    ELSE ExpectedToc(r - 1) \o
         (IF Len(DataRowsRead[r]) = 0 THEN <<>>
          ELSE <<"* [[">> \o ExpectedTitle(r) \o <<"]] \n">>)

\* C8: the table-of-contents page is never saved twice, and in a run that
\* has ended without an error it was saved once, after every section write,
\* with one entry "* [[Proposal_<k>: <first cell>]] \n" per data row that
\* has a cell, in row order, k being the row's 1-based position among the
\* data rows.
C8_TocOnceInRowOrder ==
    LET tocs == {k \in 1..Len(saves) : IsTocSave(saves[k])}
    IN  /\ Cardinality(tocs) <= 1
        /\ pc \in {"reader", "cells"} => tocs = {}
        /\ pc = "done" =>
              /\ Cardinality(tocs) = 1
              /\ \A t \in tocs :
                    /\ saves[t].text = ExpectedToc(Len(DataRowsRead))
                    /\ \A k \in 1..Len(saves) : IsSectionWrite(saves[k]) => k < t

\* a finished run over a row of no cell followed by a row with a cell
C8_Witness ==
    /\ pc = "done"
    /\ DataRowsRead = <<<<>>, <<CellX>>>>
    /\ \E k \in 1..Len(saves) :
          /\ IsTocSave(saves[k])
          /\ saves[k].text = <<"* [[", "Proposal_", "2", ": ", "x", "]] \n">>

\* the last cell of data row r has been handled
LastCellDone(r) ==
    \/ CellsDone(r) >= Len(DataRowsRead[r])
    \/ pc = "crashed" /\ CellsDone(r) = Len(DataRowsRead[r]) - 1

RECURSIVE ExpectedCategories(_)
ExpectedCategories(r) ==
    IF r = 0 THEN <<>>
    ELSE LET before == ExpectedCategories(r - 1)
             row == DataRowsRead[r]
         IN  IF /\ Len(row) > 0
                /\ row[Len(row)] # <<>>
                /\ LastCellDone(r)
                /\ \A k \in 1..Len(before) : before[k] # row[Len(row)]
             THEN Append(before, row[Len(row)])
             ELSE before

IsCategorySave(c) == c.page # <<>> /\ c.page[1] = "Category:"

\* C9: the category list has no duplicate and holds the distinct non-empty
\* last cells of the data rows handled so far, in first-seen order; the
\* category pages saved so far are "Category:<c>" with empty body for the
\* first elements c of the list, one each, in list order, all of them after
\* the table-of-contents save, and all elements once the run has ended
\* without an error.
C9_CategoriesDistinctThenPages ==
    LET cats == SelectSeq(saves, IsCategorySave)
    IN  /\ categories = ExpectedCategories(Len(DataRowsRead))
        /\ \A j, k \in 1..Len(categories) : j # k => categories[j] # categories[k]
        /\ Len(cats) <= Len(categories)
        /\ \A k \in 1..Len(cats) :
              /\ cats[k].page = <<"Category:">> \o categories[k]
              /\ cats[k].text = <<>>
        /\ pc = "done" => Len(cats) = Len(categories)
        /\ \A k \in 1..Len(saves) :
              IsCategorySave(saves[k]) =>
                  \E t \in 1..(k - 1) : IsTocSave(saves[t])

\* a finished run in which the second row repeats the category of the first
C9_Witness ==
    /\ pc = "done"
    /\ DataRowsRead = <<<<CellX, CellY>>, <<CellY, CellY>>>>
    /\ categories = <<CellY>>
    /\ saves[Len(saves)].page = <<"Category:", "y">>

\* C10: a save addressed by column that the site rejects is followed by one
\* save of the same text under the same heading to the same page as a new
\* section; a save as a new section is made only then; and a save as a new
\* section that fails is the last call of the run, which has crashed
\* without a save of the table of contents or of a category page.
C10_RetryOnceAsNewSection ==
    \A k \in 1..Len(saves) :
        LET c == saves[k]
        IN  /\ (c.section.kind = "index" /\ c.result = "APIError") =>
                  /\ k < Len(saves)
                  /\ saves[k + 1] = [c EXCEPT !.section = SectionNew,
                                              !.result = saves[k + 1].result]
            /\ c.section.kind = "new" =>
                  /\ k > 1
                  /\ saves[k - 1].section.kind = "index"
                  /\ saves[k - 1].result = "APIError"
            /\ (c.section.kind = "new" /\ c.result # "ok") =>
                  /\ k = Len(saves)
                  /\ pc = "crashed"
                  /\ \A j \in 1..Len(saves) :
                        ~IsTocSave(saves[j]) /\ ~IsCategorySave(saves[j])

\* a finished run in which a rejected save was made again as a new section
C10_Witness ==
    /\ pc = "done"
    /\ \E k \in 1..(Len(saves) - 1) :
          /\ saves[k].section.kind = "index"
          /\ saves[k].result = "APIError"
          /\ saves[k + 1].section.kind = "new"
          /\ saves[k + 1].result = "ok"

====
